---- MODULE Spec2Model ----
(***************************************************************************)
(* HealthPass (src/HealthPass.py): field-level signed passports and        *)
(* credentials anchored to a ledger contract, and the demonstration        *)
(* workflow that seeds a temporary issuer account, authorizes it, writes   *)
(* a passport and a credential, verifies them and recovers the seed.       *)
(*                                                                         *)
(* The specifications share the variables:                                 *)
(*   Spec          the __main__ workflow (lines 429-553) against the       *)
(*                 ledger;                                                 *)
(*   SpecLive      the same under fairness of the script and of mining;    *)
(*   SpecApi       a client calling the HealthPass methods in any order;   *)
(*   SpecVal       validate_data_dict applied to drawn inputs, one loop    *)
(*                 iteration per step;                                     *)
(*   SpecSig       sign_data and validate_signature on drawn inputs;       *)
(*   SpecFunds     transfer_eth and send_account_balance between owner     *)
(*                 and issuer;                                             *)
(*   SpecVerifier  the verifier part of the workflow (lines 513-542);      *)
(*   SpecDecode    the decoding of the tuples the ledger returns.          *)
(*                                                                         *)
(* Python values are modelled as follows.  A dict is a sequence of         *)
(* <<key, value>> pairs with distinct keys, in insertion order.  Booleans  *)
(* returned by the program are the strings "True" and "False", and a       *)
(* raised exception is the string of its type, so that the outcomes of a   *)
(* call are comparable with one another.  Amounts are in wei, scaled down  *)
(* so that they fit TLC's 32-bit integers.                                 *)
(***************************************************************************)
EXTENDS Integers, Sequences, FiniteSets, TLC

(***************************************************************************)
(* Bounds of the model.                                                    *)
(***************************************************************************)
\* method calls the client of SpecApi makes
MaxCalls == 2
\* fields of a drawn field map
MaxFields == 2
\* fee rates (wei per unit of gas) the gas price strategy may generate: 1..MaxGasPrice
MaxGasPrice == 2
\* web3.toWei(0.05, 'ether') of line 458, scaled
SeedWei == 100000
\* the owner's balance at the start, scaled (line 388: at least ~0.1 Eth)
OwnerWei == 400000
\* gas a contract write consumes
WriteGas == 30000

\* "21000 is the set amount of gas needed to transfer Eth" (lines 360-363)
TransferGas == 21000

GasPrices == 1..MaxGasPrice

(***************************************************************************)
(* Accounts: a private key and the address derived from it                 *)
(* (initialize_account, create_new_account).                               *)
(***************************************************************************)
PrivateKeys == {"kOwner", "kIssuer", "kPassport", "kOther"}

AddressOf(k) ==
  CASE k = "kOwner"    -> "0xOwner"
    [] k = "kIssuer"   -> "0xIssuer"
    [] k = "kPassport" -> "0xPassport"
    [] k = "kOther"    -> "0xOther"

Account(k) == [privateKey |-> k, address |-> AddressOf(k)]

Addresses == {AddressOf(k) : k \in PrivateKeys}

\* the address a recovery yields when the signature was not made over the message
UnrelatedAddress == "0xUnrelated"
\* the zero address a Solidity mapping returns for an absent entry
ZeroAddress == "0x0"
ContractAddress == "0xContract"

(***************************************************************************)
(* Python dicts as sequences of <<key, value>> pairs.                      *)
(***************************************************************************)
DictKeys(d) == {d[i][1] : i \in 1..Len(d)}

HasKey(d, k) == \E i \in 1..Len(d) : d[i][1] = k

\* d[k]; the caller checks HasKey first (a KeyError otherwise)
DictGet(d, k) == d[CHOOSE i \in 1..Len(d) : d[i][1] = k][2]

\* d[k] = v: replaces the value in place, or appends a new key
DictSet(d, k, v) ==
  IF HasKey(d, k)
    THEN [i \in 1..Len(d) |-> IF d[i][1] = k THEN <<k, v>> ELSE d[i]]
    ELSE Append(d, <<k, v>>)

\* dict(zip(keys, values)): pairs up to the shorter of the two
DictZip(keys, values) ==
  LET n == IF Len(keys) < Len(values) THEN Len(keys) ELSE Len(values)
      RECURSIVE build(_, _)
      build(i, acc) ==
        IF i > n THEN acc ELSE build(i + 1, DictSet(acc, keys[i], values[i]))
  IN build(1, <<>>)

(***************************************************************************)
(* json.dumps / json.loads of a dict of strings.  A text is a record: the  *)
(* text of an object holds its members in order; the empty string, which   *)
(* the ledger returns for an absent entry, is no JSON document.            *)
(***************************************************************************)
json_dumps(d) == [json |-> "object", members |-> d]

EmptyString == [json |-> "", members |-> <<>>]

\* the result of a call that may raise: ok, and the value or the exception's type
Returned(v) == [ok |-> TRUE, value |-> v]
Raised(e) == [ok |-> FALSE, value |-> e]

\* members are inserted in order, a repeated key keeps its last value
json_loads(text) ==
  IF text.json # "object"
    THEN Raised("JSONDecodeError")
    ELSE LET RECURSIVE build(_, _)
             build(i, acc) ==
               IF i > Len(text.members) THEN acc
               ELSE build(i + 1, DictSet(acc, text.members[i][1], text.members[i][2]))
         IN Returned(build(1, <<>>))

(***************************************************************************)
(* SignatureCodec: sign_data and validate_signature.                       *)
(***************************************************************************)
\* eip191: the message is the text behind the fixed "Ethereum Signed Message" prefix
encode_defunct(text) == <<"\\x19Ethereum Signed Message:\\n", text>>

\* a 65-byte recoverable signature, as what it commits to
sign_message(message, privateKey) ==
  [wellformed |-> TRUE, message |-> message, key |-> privateKey]

\* a string that is no signature (wrong length or format)
MalformedSignature == [wellformed |-> FALSE, message |-> <<>>, key |-> ""]

\* sign_data, were the text signed without the eip191 prefix
sign_dataUnprefixed(data, signing_account) ==
  sign_message(<<"", data>>, signing_account.privateKey)

\* signed_message.signature.hex()
sign_data(data, signing_account) ==
  sign_message(encode_defunct(data), signing_account.privateKey)

BadSignature == "BadSignature"

\* recover_message, were the address recovered from the signature alone
recover_messageIgnoresMessage(message, signature) ==
  IF ~signature.wellformed THEN BadSignature ELSE AddressOf(signature.key)

\* a signature over another message recovers to an address unrelated to the key's;
\* a signature of the wrong length or format raises
recover_message(message, signature) ==
  IF ~signature.wellformed THEN BadSignature
  ELSE IF signature.message = message THEN AddressOf(signature.key)
  ELSE UnrelatedAddress

\* "True", "False", or the exception recover_message raised
validate_signature(data, signature, signer_address) ==
  LET address == recover_message(encode_defunct(data), signature)
  IN IF address = BadSignature THEN BadSignature
     ELSE IF signer_address = address THEN "True" ELSE "False"

\* {k: self.sign_data(v, issuer_account) for k, v in d.items()}
SignDict(d, issuer_account) ==
  [i \in 1..Len(d) |-> <<d[i][1], sign_data(d[i][2], issuer_account)>>]

(***************************************************************************)
(* State.                                                                  *)
(***************************************************************************)
VARIABLES
  pc,               \* the position of the workflow, or of the client of SpecApi
  cfg,              \* CONFIGURATION (lines 381-426): issuerKey, passportKey, contractAddress
  recover_eth,      \* the flag of lines 459/462: "unset", "True", "False"
  signer,           \* the key web3 signs with (initialize_web3), default_account is its address
  contract_address, \* self.contract_address: "" until given or deployed
  txs,              \* the transactions the ledger accepted, in submission order
  cur,              \* the transaction the caller is waiting on (0: none)
  ledger,           \* the contract's storage: code, owner, authorized, passports, credentials
  balance,          \* wei of each address
  gasPrice,         \* the fee rate the gas price strategy generates now
  reports,          \* what each finished call reported to its caller
  calls,            \* invocations of each operation
  val,              \* validate_data_dict's frame: inputs, loop position, result
  sigcall,          \* the frame of a sign_data / validate_signature call
  verifier,         \* the locals of the verifier part (lines 513-542)
  decoding          \* the frame of a decoding of the ledger's tuple (lines 240-245, 254-259)

vars == <<pc, cfg, recover_eth, signer, contract_address, txs, cur, ledger, balance,
          gasPrice, reports, calls, val, sigcall, verifier, decoding>>

Operations == {"transfer_eth", "send_account_balance", "deploy_contract", "authorize_issuer",
               "create_health_passport", "create_credential"}

\* the operations that wait for their transaction's receipt
WaitedKinds == {"deploy_contract", "authorize_issuer", "create_health_passport",
                "create_credential"}

NoData == [json |-> EmptyString, address |-> ZeroAddress]

(***************************************************************************)
(* The ledger contract.  HealthPass.sol is not among the sources: its      *)
(* effects are those of the specification's sections 3 and 6.              *)
(***************************************************************************)
HolderAddresses == {"0xPassport", "0xOther"}

\* what a mapping returns for an address without a passport
NoPassport ==
  [healthJson |-> EmptyString, issuerAddress |-> ZeroAddress, allowOnlySigned |-> FALSE,
   credentialHashes |-> <<>>, isActive |-> FALSE]

\* the content identifier that names a credential
CredentialHash(json, issuer, passport) == <<"hash", json, issuer, passport>>

NoCredential ==
  [credentialJson |-> EmptyString, issuerAddress |-> ZeroAddress,
   passportAddress |-> ZeroAddress, isValid |-> FALSE]

HasCredential(l, h) == \E c \in l.credentials : c.hash = h

\* whether the contract accepts the call of transaction t in storage l
ContractAccepts(l, t) ==
  CASE t.kind = "deploy_contract" -> TRUE
    [] t.kind = "authorize_issuer" -> l.code /\ t.from = l.owner
    [] t.kind = "create_health_passport" ->
         /\ l.code
         /\ t.from \in l.authorized
    [] t.kind = "create_credential" ->
         /\ l.code
         /\ t.from \in l.authorized
         /\ l.passports[t.data.address].isActive
         /\ ~HasCredential(l, CredentialHash(t.data.json, t.from, t.data.address))
    [] OTHER -> TRUE

\* the storage after the accepted call of transaction t
ContractApply(l, t) ==
  CASE t.kind = "deploy_contract" -> [l EXCEPT !.code = TRUE, !.owner = t.from]
    [] t.kind = "authorize_issuer" ->
         [l EXCEPT !.authorized = @ \cup {t.data.address}]
    [] t.kind = "create_health_passport" ->
         [l EXCEPT !.passports[t.data.address] =
            [healthJson |-> t.data.json, issuerAddress |-> t.from,
             allowOnlySigned |-> FALSE, credentialHashes |-> <<>>, isActive |-> TRUE]]
    [] t.kind = "create_credential" ->
         LET h == CredentialHash(t.data.json, t.from, t.data.address)
         IN [l EXCEPT
               !.credentials = @ \cup
                  {[hash |-> h, credentialJson |-> t.data.json, issuerAddress |-> t.from,
                    passportAddress |-> t.data.address, isValid |-> TRUE]},
               !.passports[t.data.address].credentialHashes = Append(@, h)]
    [] OTHER -> l

\* returnPassport(address): the positional tuple of the struct
returnPassport(l, a) ==
  LET p == IF a \in HolderAddresses THEN l.passports[a] ELSE NoPassport
  IN <<p.healthJson, p.issuerAddress, p.allowOnlySigned, p.credentialHashes, p.isActive>>

\* returnCredential(hash): the positional tuple of the struct
returnCredential(l, h) ==
  LET c == IF HasCredential(l, h)
             THEN CHOOSE x \in l.credentials : x.hash = h
             ELSE NoCredential
  IN <<c.credentialJson, c.issuerAddress, c.passportAddress, c.isValid>>

Fee(t) == t.gas * t.gasPrice

\* transactions of one sender are mined in the order of their nonces
MinedBefore(i) == \A j \in 1..(i - 1) : txs[j].from = txs[i].from => txs[j].status # "Pending"

\* The ledger mines a pending transaction: the sender pays the fee; a transfer moves
\* its value; a contract call takes effect when the contract accepts it and the
\* execution does not fail otherwise (executed: it did not run out of gas).
Mine ==
  \E i \in 1..Len(txs), executed \in BOOLEAN :
    LET t == txs[i]
        good == executed /\ ContractAccepts(ledger, t)
    IN /\ t.status = "Pending"
       /\ MinedBefore(i)
       /\ balance[t.from] >= t.value + Fee(t)
       /\ t.kind = "transfer_eth" => executed
       /\ txs' = [txs EXCEPT ![i].status = IF good THEN "Success" ELSE "Failed"]
       /\ ledger' = IF good THEN ContractApply(ledger, t) ELSE ledger
       /\ balance' =
            IF t.kind = "transfer_eth"
              THEN [a \in DOMAIN balance |->
                      balance[a] - (IF a = t.from THEN t.value + Fee(t) ELSE 0)
                                 + (IF a = t.to THEN t.value ELSE 0)]
              ELSE [balance EXCEPT ![t.from] = @ - Fee(t)]
       /\ UNCHANGED <<pc, cfg, recover_eth, signer, contract_address, cur, gasPrice,
                      reports, calls, val,
                      sigcall, verifier, decoding>>

\* The fee rate the strategy derives from recent blocks moves.
FeeRateMoves ==
  /\ \E p \in GasPrices : p # gasPrice /\ gasPrice' = p
  /\ UNCHANGED <<pc, cfg, recover_eth, signer, contract_address, txs, cur, ledger,
                 balance, reports, calls, val,
                 sigcall, verifier, decoding>>

(***************************************************************************)
(* Submitting and awaiting a transaction.                                  *)
(***************************************************************************)
\* web3.eth.getTransactionCount(address): the transactions of the address mined so far
getTransactionCount(a) ==
  Cardinality({i \in 1..Len(txs) : txs[i].from = a /\ txs[i].status # "Pending"})

\* the nonce the signing middleware fills in for a contract call
NextNonce(a) == Cardinality({i \in 1..Len(txs) : txs[i].from = a})

\* fromWei, were a negative number converted like any other
fromWeiAcceptsNegative(number) == Returned([digits |-> number, exponent |-> -18])

\* web3.fromWei(number, 'ether'): an exact decimal; a negative number is refused
fromWei(number) ==
  IF number < 0 THEN Raised("ValueError")
  ELSE Returned([digits |-> number, exponent |-> -18])

\* web3.toWei(amount, 'ether')
toWei(amount) == amount.digits

\* 0.05 (line 458)
SeedAmount == [digits |-> SeedWei, exponent |-> -18]

Tx(kind, from, to, value, gas, price, nonce, data) ==
  [kind |-> kind, from |-> from, to |-> to, value |-> value, gas |-> gas,
   gasPrice |-> price, nonce |-> nonce, data |-> data, status |-> "Pending",
   seen |-> "no"]

\* The node takes a transaction that the client's account signs, whose nonce is
\* unused and whose sender can pay value and fee; anything else it refuses, and
\* send_transaction raises.
Sendable(t) ==
  /\ t.from = AddressOf(signer)
  /\ \A j \in 1..Len(txs) : txs[j].from = t.from => txs[j].nonce # t.nonce
  /\ balance[t.from] >= t.value + Fee(t)

\* the arguments of a call: the plaintext fields, the signing account's address
\* and the address of the passport; for a transfer, no fields, the address the
\* value comes from and the address it goes to
Input(fields, issuer, address) == [fields |-> fields, issuer |-> issuer, address |-> address]

NoInput == Input(<<>>, ZeroAddress, ZeroAddress)

\* what a finished call reports: the operation, its transaction (0: none was
\* submitted), the receipt's status ("none": no receipt) and how the call ended
Report(op, tx, receipt, outcome, input) ==
  [op |-> op, tx |-> tx, receipt |-> receipt, outcome |-> outcome, input |-> input]

Called(op) == [calls EXCEPT ![op] = @ + 1]

\* transfer_eth (lines 318-339): builds the transaction, sends it and returns; it
\* never asks for the receipt.  gas_price and gas_amount of 0 stand for None.
transfer_eth(from_address, to_address, amount, gas_price, gas_amount, accepted, callsNow) ==
  LET t == Tx("transfer_eth", from_address, to_address, toWei(amount),
              IF gas_amount # 0 THEN gas_amount ELSE TransferGas,
              IF gas_price # 0 THEN gas_price ELSE gasPrice,
              getTransactionCount(from_address), NoData)
  IN /\ calls' = [callsNow EXCEPT !["transfer_eth"] = @ + 1]
     /\ accepted => Sendable(t)
     /\ IF accepted
          THEN /\ txs' = Append(txs, t)
               /\ reports' = Append(reports,
                                    Report("transfer_eth", Len(txs) + 1, "none", "Sent",
                                           Input(<<>>, from_address, to_address)))
          ELSE /\ txs' = txs
               /\ reports' = Append(reports,
                                    Report("transfer_eth", 0, "none", "SubmitError",
                                           Input(<<>>, from_address, to_address)))

\* <contract call>.transact(): the call is sent from the default account
Transact(op, data, accepted, pcAwait, pcRaise) ==
  LET from == AddressOf(signer)
      t == Tx(op, from, contract_address, 0, WriteGas, gasPrice, NextNonce(from), data)
  IN /\ calls' = Called(op)
     /\ accepted => Sendable(t)
     /\ IF accepted
          THEN /\ txs' = Append(txs, t)
               /\ cur' = Len(txs) + 1
               /\ reports' = reports
               /\ pc' = pcAwait
          ELSE /\ txs' = txs
               /\ cur' = cur
               /\ reports' = Append(reports, Report(op, 0, "none", "SubmitError", NoInput))
               /\ pc' = pcRaise

\* WaitForReceipt, were the timeout swallowed: without a receipt the operation
\* prints its success message and returns all the same
WaitForReceiptIgnoresTimeout(op, pcReturn, pcRaise) ==
  /\ cur # 0
  /\ txs' = [txs EXCEPT ![cur].seen = IF txs[cur].status # "Pending" THEN "receipt"
                                      ELSE "timeout"]
  /\ reports' = Append(reports,
                       Report(op, cur,
                              IF txs[cur].status # "Pending" THEN txs[cur].status ELSE "none",
                              "Confirmed", NoInput))
  /\ pc' = pcReturn
  /\ cur' = 0

\* WaitForReceipt, were a timed out call sent again: the same call goes to the
\* ledger a second time and the operation waits on the new transaction
WaitForReceiptResubmits(op, pcReturn, pcRaise) ==
  /\ cur # 0
  /\ IF txs[cur].status # "Pending"
       THEN /\ txs' = [txs EXCEPT ![cur].seen = "receipt"]
            /\ reports' = Append(reports, Report(op, cur, txs[cur].status, "Confirmed", NoInput))
            /\ pc' = pcReturn
            /\ cur' = 0
       ELSE /\ txs' = Append([txs EXCEPT ![cur].seen = "timeout"],
                             [txs[cur] EXCEPT !.nonce = NextNonce(txs[cur].from)])
            /\ reports' = Append(reports, Report(op, cur, "none", "TimedOut", NoInput))
            /\ pc' = pc
            /\ cur' = Len(txs) + 1

\* WaitForReceipt, were the receipt not waited for: the operation returns right
\* after the submission, as transfer_eth does
WaitForReceiptReturnsAtOnce(op, pcReturn, pcRaise) ==
  /\ cur # 0
  /\ txs' = txs
  /\ reports' = Append(reports, Report(op, cur, "none", "Sent", NoInput))
  /\ pc' = pcReturn
  /\ cur' = 0

\* web3.eth.waitForTransactionReceipt(tx_hash, timeout=self.timeout), and the lines
\* after it: with a receipt the operation prints its success message and the cost
\* and returns, whatever the receipt's status; with none before the timeout the
\* wait raises TimeExhausted.
WaitForReceipt(op, pcReturn, pcRaise) ==
  /\ cur # 0
  /\ IF txs[cur].status # "Pending"
       THEN /\ txs' = [txs EXCEPT ![cur].seen = "receipt"]
            /\ reports' = Append(reports, Report(op, cur, txs[cur].status, "Confirmed", NoInput))
            /\ pc' = pcReturn
       ELSE /\ txs' = [txs EXCEPT ![cur].seen = "timeout"]
            /\ reports' = Append(reports, Report(op, cur, "none", "TimedOut", NoInput))
            /\ pc' = pcRaise
  /\ cur' = 0

(***************************************************************************)
(* send_account_balance (lines 346-363).                                   *)
(***************************************************************************)
\* send_account_balance, were the balance not tested for zero (lines 352-354)
send_account_balanceNoZeroTest(from_address, to_address, accepted, pcReturn, pcRaise) ==
  LET account_balance == balance[from_address]
      gas_price == gasPrice
      balance_minus_gas == fromWei(account_balance - (TransferGas * gas_price))
      callsNow == Called("send_account_balance")
  IN IF ~balance_minus_gas.ok
       THEN /\ ~accepted
            /\ calls' = callsNow
            /\ reports' = Append(reports,
                                 Report("send_account_balance", 0, "none", "ValueError",
                                        Input(<<>>, from_address, to_address)))
            /\ pc' = pcRaise
            /\ UNCHANGED txs
       ELSE /\ transfer_eth(from_address, to_address, balance_minus_gas.value,
                            gas_price, TransferGas, accepted, callsNow)
            /\ pc' = IF accepted THEN pcReturn ELSE pcRaise

\* send_account_balance, were the fee taken off the balance twice
send_account_balanceTwiceTheFee(from_address, to_address, accepted, pcReturn, pcRaise) ==
  LET account_balance == balance[from_address]
      gas_price == gasPrice
      balance_minus_gas == fromWei(account_balance - 2 * (TransferGas * gas_price))
      callsNow == Called("send_account_balance")
  IN IF account_balance = 0
       THEN /\ accepted
            /\ calls' = callsNow
            /\ reports' = Append(reports,
                                 Report("send_account_balance", 0, "none", "NoEth",
                                        Input(<<>>, from_address, to_address)))
            /\ pc' = pcReturn
            /\ UNCHANGED txs
       ELSE IF ~balance_minus_gas.ok
         THEN /\ ~accepted
              /\ calls' = callsNow
              /\ reports' = Append(reports,
                                   Report("send_account_balance", 0, "none", "ValueError",
                                          Input(<<>>, from_address, to_address)))
              /\ pc' = pcRaise
              /\ UNCHANGED txs
         ELSE /\ transfer_eth(from_address, to_address, balance_minus_gas.value,
                              gas_price, TransferGas, accepted, callsNow)
              /\ pc' = IF accepted THEN pcReturn ELSE pcRaise

\* Reads the balance; returns when it is zero; else generates a gas price and
\* transfers the balance less 21000 units of gas at that price.  outcome is
\* "returned" or the exception that leaves the function.
send_account_balance(from_address, to_address, accepted, pcReturn, pcRaise) ==
  LET account_balance == balance[from_address]
      gas_price == gasPrice
      balance_minus_gas == fromWei(account_balance - (TransferGas * gas_price))
      callsNow == Called("send_account_balance")
  IN IF account_balance = 0
       THEN /\ accepted
            /\ calls' = callsNow
            /\ reports' = Append(reports,
                                 Report("send_account_balance", 0, "none", "NoEth",
                                        Input(<<>>, from_address, to_address)))
            /\ pc' = pcReturn
            /\ UNCHANGED txs
       ELSE IF ~balance_minus_gas.ok
         THEN /\ ~accepted
              /\ calls' = callsNow
              /\ reports' = Append(reports,
                                   Report("send_account_balance", 0, "none", "ValueError",
                                          Input(<<>>, from_address, to_address)))
              /\ pc' = pcRaise
              /\ UNCHANGED txs
         ELSE /\ transfer_eth(from_address, to_address, balance_minus_gas.value,
                              gas_price, TransferGas, accepted, callsNow)
              /\ pc' = IF accepted THEN pcReturn ELSE pcRaise

(***************************************************************************)
(* The workflow (lines 429-553).  Its positions:                           *)
(*   seed, passport_account, init_contract, deploy_await, code_check,      *)
(*   code_wait, authorize, authorize_await, switch_account,                *)
(*   create_passport, recover, done; crashed is an exception outside the   *)
(*   try block, which ends the script.                                     *)
(***************************************************************************)
OwnerAccount == Account("kOwner")
IssuerAccount == Account("kIssuer")
PassportAccount == Account("kPassport")

\* health_data (lines 491-495) and credential_data (lines 498-502)
health_data ==
  << <<"First Name", "John">>, <<"Last Name", "Smith">>, <<"Date of Birth", "10/5/1970">> >>
credential_data ==
  << <<"Vaccine Type", "Moderna">>, <<"Date", "4/1/2021">>, <<"Dose #", "1">> >>

\* lines 454-462: without an issuer key a new account is created and seeded with
\* 0.05 Eth from the owner, and recover_eth is set; a failure here is not caught
SeedIssuer ==
  /\ pc = "seed"
  /\ \/ /\ cfg.issuerKey = "empty"
        /\ \E accepted \in BOOLEAN :
             /\ transfer_eth(OwnerAccount.address, IssuerAccount.address, SeedAmount,
                             0, 0, accepted, calls)
             /\ recover_eth' = IF accepted THEN "True" ELSE recover_eth
             /\ pc' = IF accepted THEN "passport_account" ELSE "crashed"
     \/ /\ cfg.issuerKey = "valid"
        /\ recover_eth' = "False"
        /\ pc' = "passport_account"
        /\ UNCHANGED <<txs, reports, calls>>
     \/ /\ cfg.issuerKey = "invalid"
        /\ pc' = "crashed"
        /\ UNCHANGED <<recover_eth, txs, reports, calls>>
  /\ UNCHANGED <<cfg, signer, contract_address, cur, ledger, balance, gasPrice, val,
                 sigcall, verifier, decoding>>

\* lines 464-468: the passport account is created or initialized from its key;
\* initialize_account raises on a key that is no private key, outside the try block
InitPassportAccount ==
  /\ pc = "passport_account"
  /\ pc' = IF cfg.passportKey = "invalid" THEN "crashed" ELSE "init_contract"
  /\ UNCHANGED <<cfg, recover_eth, signer, contract_address, txs, cur, ledger, balance,
                 gasPrice, reports, calls, val,
                 sigcall, verifier, decoding>>

\* line 474, initialize_contract (lines 78-100): with an address the contract is
\* bound to it; without one deploy_contract submits the deployment (line 162)
InitializeContract ==
  /\ pc = "init_contract"
  /\ IF contract_address # ""
       THEN /\ pc' = "authorize"
            /\ UNCHANGED <<txs, cur, reports, calls>>
       ELSE \E accepted \in BOOLEAN :
              Transact("deploy_contract", NoData, accepted, "deploy_await", "recover")
  /\ UNCHANGED <<cfg, recover_eth, signer, contract_address, ledger, balance, gasPrice, val,
                 sigcall, verifier, decoding>>

\* deploy_contract, lines 166-176: the receipt's contractAddress becomes the
\* contract's address
DeployAwait ==
  /\ pc = "deploy_await"
  /\ WaitForReceipt("deploy_contract", "code_check", "recover")
  /\ contract_address' = IF txs[cur].status # "Pending" THEN ContractAddress
                         ELSE contract_address
  /\ UNCHANGED <<cfg, recover_eth, signer, ledger, balance, gasPrice, calls, val,
                 sigcall, verifier, decoding>>

\* line 105: the code at the contract's address is read once; a node that has not
\* caught up, or a failed deployment, shows none
CodeCheck ==
  /\ pc = "code_check"
  /\ \/ /\ ledger.code
        /\ pc' = "authorize"
     \/ pc' = "code_wait"
  /\ UNCHANGED <<cfg, recover_eth, signer, contract_address, txs, cur, ledger, balance,
                 gasPrice, reports, calls, val,
                 sigcall, verifier, decoding>>

\* lines 106-108: the loop sleeps and tests the value read at line 105 again
WaitForCode ==
  /\ pc = "code_wait"
  /\ pc' = "code_wait"
  /\ UNCHANGED <<cfg, recover_eth, signer, contract_address, txs, cur, ledger, balance,
                 gasPrice, reports, calls, val,
                 sigcall, verifier, decoding>>

\* line 480, authorize_issuer line 188
Authorize ==
  /\ pc = "authorize"
  /\ \E accepted \in BOOLEAN :
       Transact("authorize_issuer", [json |-> EmptyString, address |-> IssuerAccount.address],
                accepted, "authorize_await", "recover")
  /\ UNCHANGED <<cfg, recover_eth, signer, contract_address, ledger, balance, gasPrice, val,
                 sigcall, verifier, decoding>>

\* authorize_issuer lines 192-194
AuthorizeAwait ==
  /\ pc = "authorize_await"
  /\ WaitForReceipt("authorize_issuer", "switch_account", "recover")
  /\ UNCHANGED <<cfg, recover_eth, signer, contract_address, ledger, balance, gasPrice,
                 calls, val,
                 sigcall, verifier, decoding>>

\* lines 488-489: web3 signs as the issuer from here on; the contract is bound again
SwitchAccount ==
  /\ pc = "switch_account"
  /\ signer' = IssuerAccount.privateKey
  /\ pc' = "create_passport"
  /\ UNCHANGED <<cfg, recover_eth, contract_address, txs, cur, ledger, balance, gasPrice,
                 reports, calls, val,
                 sigcall, verifier, decoding>>

\* create_health_passport, were the call of line 206 sent and the wait of line 211
\* to time out: the call fails while its transaction stays with the ledger
create_health_passportSentThenTimedOut(health_dict, issuer_account, passport_account, pcReturn, pcRaise) ==
  LET hashed_dict == SignDict(health_dict, issuer_account)
      json_string == json_dumps(hashed_dict)
      from == AddressOf(signer)
      t == Tx("create_health_passport", from, contract_address, 0, WriteGas, gasPrice,
              NextNonce(from), [json |-> json_string, address |-> passport_account.address])
  IN /\ Sendable(t)
     /\ calls' = Called("create_health_passport")
     /\ txs' = Append(txs, [t EXCEPT !.seen = "timeout"])
     /\ reports' = Append(reports,
                          Report("create_health_passport", Len(txs) + 1, "none", "TimedOut",
                                 Input(health_dict, issuer_account.address,
                                       passport_account.address)))
     /\ pc' = pcRaise
     /\ cur' = cur

\* create_health_passport (lines 197-213): the fields are signed and dumped; line
\* 207 then reads allow_only_signed, a name no scope defines, and the NameError
\* leaves the function before anything is submitted
create_health_passport(health_dict, issuer_account, passport_account, pcReturn, pcRaise) ==
  LET hashed_dict == SignDict(health_dict, issuer_account)
      json_string == json_dumps(hashed_dict)
  IN /\ calls' = Called("create_health_passport")
     /\ reports' = Append(reports,
                          Report("create_health_passport", 0, "none", "NameError",
                                 Input(health_dict, issuer_account.address,
                                       passport_account.address)))
     /\ pc' = pcRaise
     /\ UNCHANGED <<txs, cur>>

\* line 496
CreatePassport ==
  /\ pc = "create_passport"
  /\ create_health_passport(health_data, IssuerAccount, PassportAccount,
                            "create_credential", "recover")
  /\ UNCHANGED <<cfg, recover_eth, signer, contract_address, ledger, balance, gasPrice, val,
                 sigcall, verifier, decoding>>

\* RecoverStep, were the recover_eth flag not tested
RecoverStepUnconditional ==
  /\ pc = "recover"
  /\ \E accepted \in BOOLEAN :
       send_account_balance(IssuerAccount.address, OwnerAccount.address, accepted,
                            "done", "crashed")
  /\ UNCHANGED <<cfg, recover_eth, signer, contract_address, cur, ledger, balance,
                 gasPrice, val,
                 sigcall, verifier, decoding>>

\* lines 547-551: after the try block, the issuer's balance is sent back when
\* recover_eth is set; an exception here ends the script
RecoverStep ==
  /\ pc = "recover"
  /\ IF recover_eth = "True"
       THEN \E accepted \in BOOLEAN :
              send_account_balance(IssuerAccount.address, OwnerAccount.address, accepted,
                                   "done", "crashed")
       ELSE /\ pc' = "done"
            /\ UNCHANGED <<txs, reports, calls>>
  /\ UNCHANGED <<cfg, recover_eth, signer, contract_address, cur, ledger, balance,
                 gasPrice, val,
                 sigcall, verifier, decoding>>

(***************************************************************************)
(* The workflow's specification.                                           *)
(***************************************************************************)
KeyChoices == {"empty", "valid", "invalid"}

\* validate_data_dict is not running
NoVal == [stage |-> "none", plaintext_dict |-> <<>>, signature_dict |-> <<>>,
          signer_address |-> ZeroAddress, index |-> 0, verified |-> <<>>,
          printed |-> <<>>, result |-> "none"]

\* no sign_data / validate_signature call has been made
NoSigCall == [stage |-> "none", data |-> "", key |-> "", signature |-> MalformedSignature,
              genuine |-> FALSE, checked_data |-> "", signer_address |-> ZeroAddress,
              result |-> "none"]

\* no tuple is being decoded
NoDecoding == [stage |-> "none", kind |-> "none", values |-> <<>>, result |-> Returned(<<>>)]

\* the verifier part has not begun
NoVerifier == [passport_dict |-> <<>>, credential_dict |-> <<>>, validations |-> <<>>,
               passport_valid |-> "unset", credential_valid |-> "unset",
               access |-> "undecided"]

EmptyLedger(code, owner) ==
  [code |-> code, owner |-> owner, authorized |-> {},
   passports |-> [a \in HolderAddresses |-> NoPassport], credentials |-> {}]

AllAddresses == Addresses \cup {ContractAddress}

\* The state at line 454: web3 signs as the owner (line 446); a contract address
\* given in the configuration names a contract deployed before, by this owner or
\* by someone else; an issuer key given is that of a funded account (line 396).
Init ==
  /\ pc = "seed"
  /\ cfg \in [issuerKey : KeyChoices, passportKey : KeyChoices,
              contractAddress : {"", ContractAddress}]
  /\ recover_eth = "unset"
  /\ signer = OwnerAccount.privateKey
  /\ contract_address = cfg.contractAddress
  /\ txs = <<>>
  /\ cur = 0
  /\ IF cfg.contractAddress = ""
       THEN ledger = EmptyLedger(FALSE, ZeroAddress)
       ELSE \E o \in {OwnerAccount.address, "0xOther"} : ledger = EmptyLedger(TRUE, o)
  /\ balance = [a \in AllAddresses |->
                  IF a = OwnerAccount.address THEN OwnerWei
                  ELSE IF a = IssuerAccount.address /\ cfg.issuerKey = "valid" THEN SeedWei
                  ELSE 0]
  /\ gasPrice \in GasPrices
  /\ reports = <<>>
  /\ calls = [op \in Operations |-> 0]
  /\ val = NoVal
  /\ sigcall = NoSigCall
  /\ verifier = NoVerifier
  /\ decoding = NoDecoding

Next ==
  \/ SeedIssuer
  \/ InitPassportAccount
  \/ InitializeContract
  \/ DeployAwait
  \/ CodeCheck
  \/ WaitForCode
  \/ Authorize
  \/ AuthorizeAwait
  \/ SwitchAccount
  \/ CreatePassport
  \/ RecoverStep
  \/ Mine
  \/ FeeRateMoves

Spec == Init /\ [][Next]_vars

(***************************************************************************)
(* Properties of the workflow and of the write operations.                 *)
(***************************************************************************)
ReportSet == {reports[i] : i \in 1..Len(reports)}

TxsOfKind(k) == {i \in 1..Len(txs) : txs[i].kind = k}

\* the seed transfer owner -> issuer was accepted by the ledger
SeedSubmitted ==
  \E i \in TxsOfKind("transfer_eth") :
    txs[i].from = OwnerAccount.address /\ txs[i].to = IssuerAccount.address

\* the script has ended: after line 553, or by an uncaught exception
Ended == pc \in {"done", "crashed"}

\* submitted, not mined, and its caller has seen neither a receipt nor a timeout
InFlight(i) == txs[i].status = "Pending" /\ txs[i].seen = "no"

\* C1 (as claimed): when the workflow has ended and the seed transfer was made,
\* send_account_balance was invoked exactly once, on every exit path, also when
\* the failure came between the seed and the try block.
C1_RecoveryOnEveryExit ==
  (Ended /\ SeedSubmitted) => calls["send_account_balance"] = 1

\* C2: when an issuer key is supplied, the seed transfer is never made and
\* send_account_balance is never invoked, whether the body succeeds or fails.
C2_NoRecoveryWithoutSeed ==
  cfg.issuerKey # "empty" =>
    /\ calls["transfer_eth"] = 0
    /\ calls["send_account_balance"] = 0
    /\ TxsOfKind("transfer_eth") = {}

\* a run with a supplied issuer key whose body failed and that reached line 553
C2_Witness ==
  /\ pc = "done"
  /\ cfg.issuerKey = "valid"
  /\ \E r \in ReportSet : r.outcome \in {"NameError", "TimedOut", "SubmitError"}

\* C3 (as claimed): a write whose receipt indicates execution failure ends in the
\* Reverted outcome and is never reported as confirmed.
C3_FailedReceiptIsReverted ==
  \A r \in ReportSet :
    (r.op \in WaitedKinds /\ r.receipt = "Failed") => r.outcome = "Reverted"

\* C4: a wait that saw no receipt before the timeout ends TimedOut, never
\* Confirmed or Reverted: a write reported as confirmed or reverted has been mined,
\* and a transaction whose wait timed out is reported TimedOut.
C4_TimeoutIsTimedOut ==
  /\ \A r \in ReportSet :
       r.outcome \in {"Confirmed", "Reverted"} => (r.tx # 0 /\ txs[r.tx].status # "Pending")
  /\ \A r \in ReportSet :
       (r.op \in WaitedKinds /\ r.tx # 0 /\ r.receipt = "none") => r.outcome = "TimedOut"
  /\ \A i \in 1..Len(txs) :
       txs[i].seen = "timeout" =>
         \E r \in ReportSet : r.tx = i /\ r.outcome = "TimedOut"

\* a wait timed out and its transaction is still pending, or was mined afterwards
C4_Witness ==
  \E r \in ReportSet :
    r.outcome = "TimedOut" /\ txs[r.tx].seen = "timeout" /\ txs[r.tx].status = "Success"

\* C5: each invocation submits its ledger call at most once, and the workflow
\* invokes each contract write, the seed and the recovery at most once.
C5_AtMostOneSubmission ==
  /\ \A op \in WaitedKinds \cup {"transfer_eth"} :
       Cardinality(TxsOfKind(op)) <= calls[op]
  /\ \A op \in WaitedKinds : calls[op] <= 1
  /\ calls["send_account_balance"] <= 1
  /\ \A i, j \in TxsOfKind("transfer_eth") : txs[i].from = txs[j].from => i = j

\* the workflow ended after a timed out or reverted write, which was submitted once
C5_Witness ==
  /\ Ended
  /\ \E r \in ReportSet :
       /\ r.op \in WaitedKinds
       /\ r.outcome = "TimedOut" \/ r.receipt = "Failed"
       /\ Cardinality(TxsOfKind(r.op)) = 1

\* C6 (as claimed): the workflow never has two of its writes in flight.
C6_OneWriteInFlight ==
  Cardinality({i \in 1..Len(txs) : InFlight(i)}) <= 1

\* C6 (amended): a write of deploy_contract, authorize_issuer,
\* create_health_passport or create_credential that is in flight is the one its
\* caller is blocked on, so no other ledger operation is issued meanwhile; a
\* transfer made by transfer_eth is never waited for.
C6_WaitedWritesAreSynchronous ==
  /\ \A i \in 1..Len(txs) :
       (InFlight(i) /\ txs[i].kind \in WaitedKinds) =>
          (cur = i /\ pc \in {"deploy_await", "authorize_await", "api_await"})
  /\ \A i \in TxsOfKind("transfer_eth") : txs[i].seen = "no"
  /\ Cardinality({i \in 1..Len(txs) : InFlight(i) /\ txs[i].kind \in WaitedKinds}) <= 1

\* the seed transfer is still in flight while the workflow waits on its next write
C6_Witness ==
  \E i, j \in 1..Len(txs) :
    /\ InFlight(i) /\ txs[i].kind = "transfer_eth"
    /\ InFlight(j) /\ txs[j].kind \in WaitedKinds

(***************************************************************************)
(* Reads (lines 234-259).                                                  *)
(***************************************************************************)
HEALTH_PASSPORT_STRUCT ==
  <<"healthJson", "issuerAddress", "allowOnlySigned", "credentialHashes", "isActive">>

\* CREDENTIAL_STRUCT, were two of its keys in the wrong order
CREDENTIAL_STRUCT_Swapped ==
  <<"credentialJson", "passportAddress", "issuerAddress", "isValid">>

CREDENTIAL_STRUCT == <<"credentialJson", "issuerAddress", "passportAddress", "isValid">>

\* lines 240-245: the tuple is zipped with the struct's keys and the healthJson
\* text is parsed; without that key the lookup of line 243 raises
PassportDictFrom(health_passport_values) ==
  LET health_passport_dict == DictZip(HEALTH_PASSPORT_STRUCT, health_passport_values)
      loaded == json_loads(DictGet(health_passport_dict, "healthJson"))
  IN IF ~HasKey(health_passport_dict, "healthJson") THEN Raised("KeyError")
     ELSE IF ~loaded.ok THEN loaded
     ELSE Returned(DictSet(health_passport_dict, "healthJson", loaded.value))

\* get_health_passport: the view call's tuple is decoded; a call to an address
\* without code raises
get_health_passport(passport_address) ==
  IF ~ledger.code \/ contract_address = "" THEN Raised("BadFunctionCallOutput")
  ELSE PassportDictFrom(returnPassport(ledger, passport_address))

\* lines 254-259: likewise, with the Credential struct's keys
CredentialDictFrom(credential_values) ==
  LET zipped == DictZip(CREDENTIAL_STRUCT, credential_values)
      loaded == json_loads(DictGet(zipped, "credentialJson"))
  IN IF ~HasKey(zipped, "credentialJson") THEN Raised("KeyError")
     ELSE IF ~loaded.ok THEN loaded
     ELSE Returned(DictSet(zipped, "credentialJson", loaded.value))

\* get_credential: the view call's tuple is decoded
get_credential(credential_hash) ==
  IF ~ledger.code \/ contract_address = "" THEN Raised("BadFunctionCallOutput")
  ELSE CredentialDictFrom(returnCredential(ledger, credential_hash))

(***************************************************************************)
(* SpecApi: a client of the class calls its methods in any order, one at   *)
(* a time, against a ledger that mines in the background.                  *)
(***************************************************************************)
\* create_credential (lines 216-225): the fields are signed with the issuer
\* account's key, dumped, and createCredential is sent from the default account
create_credential(credential_dict, issuer_account, passport_account, accepted, pcAwait, pcRaise) ==
  LET hashed_dict == SignDict(credential_dict, issuer_account)
      json_string == json_dumps(hashed_dict)
  IN Transact("create_credential",
              [json |-> json_string, address |-> passport_account.address],
              accepted, pcAwait, pcRaise)

\* authorize_issuer (line 188)
authorize_issuer(issuer_name, issuer_account, accepted, pcAwait, pcRaise) ==
  Transact("authorize_issuer", [json |-> EmptyString, address |-> issuer_account.address],
           accepted, pcAwait, pcRaise)

\* the passport another client of the contract wrote for the passport account
IssuedPassport ==
  [healthJson |-> json_dumps(SignDict(health_data, IssuerAccount)),
   issuerAddress |-> IssuerAccount.address, allowOnlySigned |-> FALSE,
   credentialHashes |-> <<>>, isActive |-> TRUE]

\* the contract as the client may find it: not deployed; deployed by the owner;
\* deployed, with the issuer authorized and a passport issued
ApiLedgers ==
  { EmptyLedger(FALSE, ZeroAddress),
    EmptyLedger(TRUE, OwnerAccount.address),
    [EmptyLedger(TRUE, OwnerAccount.address) EXCEPT
       !.authorized = {IssuerAccount.address},
       !.passports["0xPassport"] = IssuedPassport] }

\* field maps the client passes
ApiDicts == {credential_data, << <<"Dose #", "2">> >>}

InitApi ==
  /\ pc = "idle"
  /\ cfg = [issuerKey |-> "valid", passportKey |-> "valid", contractAddress |-> ""]
  /\ recover_eth = "unset"
  /\ signer = OwnerAccount.privateKey
  /\ ledger \in ApiLedgers
  /\ contract_address = IF ledger.code THEN ContractAddress ELSE ""
  /\ txs = <<>>
  /\ cur = 0
  /\ balance = [a \in AllAddresses |->
                  IF a \in {OwnerAccount.address, IssuerAccount.address} THEN OwnerWei ELSE 0]
  /\ gasPrice \in GasPrices
  /\ reports = <<>>
  /\ calls = [op \in Operations |-> 0]
  /\ val = NoVal
  /\ sigcall = NoSigCall
  /\ verifier = NoVerifier
  /\ decoding = NoDecoding

\* the client may make another call
MayCall == pc = "idle" /\ Len(reports) < MaxCalls

\* initialize_web3 (lines 63-74): the account signs from now on
ApiInitializeWeb3 ==
  /\ pc = "idle"
  /\ \E k \in {"kOwner", "kIssuer"} : k # signer /\ signer' = k
  /\ UNCHANGED <<pc, cfg, recover_eth, contract_address, txs, cur, ledger, balance,
                 gasPrice, reports, calls, val,
                 sigcall, verifier, decoding>>

\* initialize_contract without an address: deploy_contract (line 162)
ApiDeploy ==
  /\ MayCall
  /\ contract_address = ""
  /\ \E accepted \in BOOLEAN :
       Transact("deploy_contract", NoData, accepted, "api_await", "idle")
  /\ UNCHANGED <<cfg, recover_eth, signer, contract_address, ledger, balance, gasPrice, val,
                 sigcall, verifier, decoding>>

ApiDeployAwait ==
  /\ pc = "api_await"
  /\ cur # 0
  /\ txs[cur].kind = "deploy_contract"
  /\ WaitForReceipt("deploy_contract", "idle", "idle")
  /\ contract_address' = IF txs[cur].status # "Pending" THEN ContractAddress
                         ELSE contract_address
  /\ UNCHANGED <<cfg, recover_eth, signer, ledger, balance, gasPrice, calls, val,
                 sigcall, verifier, decoding>>

ApiAuthorize ==
  /\ MayCall
  /\ contract_address # ""
  /\ \E accepted \in BOOLEAN :
       authorize_issuer("Pat Walker Health Center", IssuerAccount, accepted,
                        "api_await", "idle")
  /\ UNCHANGED <<cfg, recover_eth, signer, contract_address, ledger, balance, gasPrice, val,
                 sigcall, verifier, decoding>>

ApiAuthorizeAwait ==
  /\ pc = "api_await"
  /\ cur # 0
  /\ txs[cur].kind = "authorize_issuer"
  /\ WaitForReceipt("authorize_issuer", "idle", "idle")
  /\ UNCHANGED <<cfg, recover_eth, signer, contract_address, ledger, balance, gasPrice,
                 calls, val,
                 sigcall, verifier, decoding>>

ApiCreatePassport ==
  /\ MayCall
  /\ contract_address # ""
  /\ \E d \in ApiDicts, k \in {"kPassport", "kOther"} :
       create_health_passport(d, IssuerAccount, Account(k), "idle", "idle")
  /\ UNCHANGED <<cfg, recover_eth, signer, contract_address, ledger, balance, gasPrice, val,
                 sigcall, verifier, decoding>>

ApiCreateCredential ==
  /\ MayCall
  /\ contract_address # ""
  /\ \E d \in ApiDicts, k \in {"kPassport", "kOther"}, accepted \in BOOLEAN :
       create_credential(d, IssuerAccount, Account(k), accepted, "api_await", "idle")
  /\ UNCHANGED <<cfg, recover_eth, signer, contract_address, ledger, balance, gasPrice, val,
                 sigcall, verifier, decoding>>

ApiCredentialAwait ==
  /\ pc = "api_await"
  /\ cur # 0
  /\ txs[cur].kind = "create_credential"
  /\ WaitForReceipt("create_credential", "idle", "idle")
  /\ UNCHANGED <<cfg, recover_eth, signer, contract_address, ledger, balance, gasPrice,
                 calls, val,
                 sigcall, verifier, decoding>>

NextApi ==
  \/ ApiInitializeWeb3
  \/ ApiDeploy
  \/ ApiDeployAwait
  \/ ApiAuthorize
  \/ ApiAuthorizeAwait
  \/ ApiCreatePassport
  \/ ApiCreateCredential
  \/ ApiCredentialAwait
  \/ Mine

SpecApi == InitApi /\ [][NextApi]_vars

(***************************************************************************)
(* Properties of the registry operations.                                  *)
(***************************************************************************)
\* every field of plaintext dict f has, in signed dict g, a signature that
\* verifies against address a for the field's plaintext
AllFieldsVerify(f, g, a) ==
  \A i \in 1..Len(f) :
    /\ HasKey(g, f[i][1])
    /\ validate_signature(f[i][2], DictGet(g, f[i][1]), a) = "True"

\* C7 (as claimed): once create_health_passport(F, issuer, holder) has ended for
\* an authorized issuer without a ledger failure, get_health_passport(holder.address) yields a passport
\* whose healthJson has exactly F's keys, each signature verifying against
\* issuer.address for the plaintext of its field.
C7_PassportRoundTrip ==
  \A r \in ReportSet :
    (r.op = "create_health_passport"
       /\ r.input.issuer \in ledger.authorized
       /\ r.outcome \notin {"SubmitError", "TimedOut", "Reverted"}) =>
      LET p == get_health_passport(r.input.address)
      IN /\ p.ok
         /\ DictKeys(DictGet(p.value, "healthJson")) = DictKeys(r.input.fields)
         /\ AllFieldsVerify(r.input.fields, DictGet(p.value, "healthJson"), r.input.issuer)

\* the successful create_credential transactions for the passport at address a
CredentialsCreated(a) ==
  {i \in TxsOfKind("create_credential") :
     txs[i].status = "Success" /\ txs[i].data.address = a}

FieldNames == {"a", "b", "c"}
FieldValues == {"1", "2"}

\* signatures a verifier may be handed: of either value, by the issuer or by
\* another key, and a string that is no signature
Signatures ==
  {sign_data(v, Account(k)) : v \in FieldValues, k \in {"kIssuer", "kOther"}}
    \cup {MalformedSignature}

\* sequences of n distinct field names
KeySeqs(n) == {ks \in [1..n -> FieldNames] : \A i, j \in 1..n : ks[i] = ks[j] => i = j}

\* dicts of n fields with values in V, in any insertion order
DictsOver(n, V) == {[i \in 1..n |-> <<ks[i], vs[i]>>] : ks \in KeySeqs(n), vs \in [1..n -> V]}

SignedDicts == UNION {DictsOver(n, Signatures) : n \in 0..MaxFields}
PlaintextDicts == UNION {DictsOver(n, FieldValues) : n \in 0..MaxFields}

InitVal ==
  /\ pc = "validate"
  /\ cfg = [issuerKey |-> "valid", passportKey |-> "valid", contractAddress |-> ""]
  /\ recover_eth = "unset"
  /\ signer = OwnerAccount.privateKey
  /\ ledger = EmptyLedger(FALSE, ZeroAddress)
  /\ contract_address = ""
  /\ txs = <<>>
  /\ cur = 0
  /\ balance = [a \in AllAddresses |-> 0]
  /\ gasPrice = 1
  /\ reports = <<>>
  /\ calls = [op \in Operations |-> 0]
  /\ \E p \in PlaintextDicts, g \in SignedDicts,
        a \in {IssuerAccount.address, "0xOther"} :
       val = [stage |-> "loop", plaintext_dict |-> p, signature_dict |-> g,
              signer_address |-> a, index |-> 1, verified |-> <<>>, printed |-> <<>>,
              result |-> "none"]
  /\ sigcall = NoSigCall
  /\ verifier = NoVerifier
  /\ decoding = NoDecoding

\* ValidateStep, were a failing field skipped instead of ending the validation
ValidateStepSkipsFailure ==
  /\ val.stage = "loop"
  /\ IF val.index > Len(val.signature_dict)
       THEN val' = [val EXCEPT !.stage = "done", !.result = "True"]
       ELSE LET key == val.signature_dict[val.index][1]
                data_signature == val.signature_dict[val.index][2]
            IN IF ~HasKey(val.plaintext_dict, key)
                 THEN val' = [val EXCEPT !.stage = "done", !.result = "KeyError"]
                 ELSE LET is_valid == validate_signature(DictGet(val.plaintext_dict, key),
                                                         data_signature, val.signer_address)
                      IN IF is_valid \in {"True", "False"}
                           THEN val' = [val EXCEPT !.index = @ + 1,
                                                   !.verified = Append(@, key)]
                           ELSE val' = [val EXCEPT !.stage = "done", !.result = is_valid,
                                                   !.verified = Append(@, key)]
  /\ UNCHANGED <<pc, cfg, recover_eth, signer, contract_address, txs, cur, ledger,
                 balance, gasPrice, reports, calls,
                 sigcall, verifier, decoding>>

\* ValidateStep, were the loop to go on after a failing field and return False
\* only at its end
ValidateStepNoShortCircuit ==
  /\ val.stage = "loop"
  /\ IF val.index > Len(val.signature_dict)
       THEN val' = [val EXCEPT !.stage = "done",
                               !.result = IF val.printed = <<>> THEN "True" ELSE "False"]
       ELSE LET key == val.signature_dict[val.index][1]
                data_signature == val.signature_dict[val.index][2]
            IN IF ~HasKey(val.plaintext_dict, key)
                 THEN val' = [val EXCEPT !.stage = "done", !.result = "KeyError"]
                 ELSE LET is_valid == validate_signature(DictGet(val.plaintext_dict, key),
                                                         data_signature, val.signer_address)
                      IN CASE is_valid = "True" ->
                                val' = [val EXCEPT !.index = @ + 1,
                                                   !.verified = Append(@, key)]
                           [] is_valid = "False" ->
                                val' = [val EXCEPT !.index = @ + 1,
                                                   !.verified = Append(@, key),
                                                   !.printed = Append(@, key)]
                           [] OTHER ->
                                val' = [val EXCEPT !.stage = "done", !.result = is_valid,
                                                   !.verified = Append(@, key)]
  /\ UNCHANGED <<pc, cfg, recover_eth, signer, contract_address, txs, cur, ledger,
                 balance, gasPrice, reports, calls,
                 sigcall, verifier, decoding>>

\* One iteration of the for loop of line 304, or the return of line 311 when the
\* items are exhausted.  verified lists the keys validate_signature was called
\* for, printed the keys of the warnings (line 309); result is "True", "False"
\* or the exception that left the function.
ValidateStep ==
  /\ val.stage = "loop"
  /\ IF val.index > Len(val.signature_dict)
       THEN val' = [val EXCEPT !.stage = "done", !.result = "True"]
       ELSE LET key == val.signature_dict[val.index][1]
                data_signature == val.signature_dict[val.index][2]
            IN IF ~HasKey(val.plaintext_dict, key)
                 THEN val' = [val EXCEPT !.stage = "done", !.result = "KeyError"]
                 ELSE LET is_valid == validate_signature(DictGet(val.plaintext_dict, key),
                                                         data_signature, val.signer_address)
                      IN CASE is_valid = "True" ->
                                val' = [val EXCEPT !.index = @ + 1,
                                                   !.verified = Append(@, key)]
                           [] is_valid = "False" ->
                                val' = [val EXCEPT !.stage = "done", !.result = "False",
                                                   !.verified = Append(@, key),
                                                   !.printed = Append(@, key)]
                           [] OTHER ->
                                val' = [val EXCEPT !.stage = "done", !.result = is_valid,
                                                   !.verified = Append(@, key)]
  /\ UNCHANGED <<pc, cfg, recover_eth, signer, contract_address, txs, cur, ledger,
                 balance, gasPrice, reports, calls,
                 sigcall, verifier, decoding>>

NextVal == ValidateStep

SpecVal == InitVal /\ [][NextVal]_vars

\* the two dicts have the same key set
SameKeys(p, g) == DictKeys(p) = DictKeys(g)

\* the positions of signature_dict whose signature does not verify for the plaintext
Mismatches(p, g, a) ==
  {i \in 1..Len(g) : validate_signature(DictGet(p, g[i][1]), g[i][2], a) # "True"}

\* C9: with equal key sets validate_data_dict returns success exactly when
\* every signature of signed verifies against the address for its plaintext; one
\* failing field makes the validation fail.
C9_AllOrNothing ==
  (val.stage = "done" /\ SameKeys(val.plaintext_dict, val.signature_dict)) =>
    (val.result = "True"
       <=> Mismatches(val.plaintext_dict, val.signature_dict, val.signer_address) = {})

\* two fields, the first verifies and the second does not: the validation failed
C9_Witness ==
  /\ val.stage = "done"
  /\ SameKeys(val.plaintext_dict, val.signature_dict)
  /\ Mismatches(val.plaintext_dict, val.signature_dict, val.signer_address) = {2}
  /\ val.result = "False"

\* the first position of signature_dict whose signature does not verify
FirstMismatch(p, g, a) ==
  CHOOSE i \in Mismatches(p, g, a) : \A j \in Mismatches(p, g, a) : i <= j

\* C10 (as claimed): when the validation fails on a signature mismatch, the failure
\* returned to the caller names the first failing field.
C10_ReturnNamesFirstFailing ==
  (val.stage = "done" /\ SameKeys(val.plaintext_dict, val.signature_dict)
     /\ val.printed # <<>>) =>
    val.result = val.signature_dict[FirstMismatch(val.plaintext_dict, val.signature_dict,
                                                  val.signer_address)][1]

\* C10 (amended): when the validation fails on a signature mismatch it returns
\* False, the one warning it prints names the first failing field in the order of
\* signature_dict, and no field after that one is verified.
C10_WarningNamesFirstFailing ==
  (val.stage = "done" /\ SameKeys(val.plaintext_dict, val.signature_dict)
     /\ val.result = "False") =>
    LET first == FirstMismatch(val.plaintext_dict, val.signature_dict, val.signer_address)
    IN /\ val.printed = <<val.signature_dict[first][1]>>
       /\ val.verified = [i \in 1..first |-> val.signature_dict[i][1]]

\* field a carries the signature made for field b, whose plaintext differs, and a
\* field follows it: the warning names a and the field after it was not verified
C10_Witness ==
  /\ val.stage = "done"
  /\ val.result = "False"
  /\ Len(val.signature_dict) = 2
  /\ SameKeys(val.plaintext_dict, val.signature_dict)
  /\ DictGet(val.plaintext_dict, val.signature_dict[1][1])
       # DictGet(val.plaintext_dict, val.signature_dict[2][1])
  /\ val.signature_dict[1][2]
       = sign_data(DictGet(val.plaintext_dict, val.signature_dict[2][1]), IssuerAccount)
  /\ val.signer_address = IssuerAccount.address
  /\ val.printed = <<val.signature_dict[1][1]>>
  /\ Len(val.verified) = 1

\* C11 (as claimed): when the key sets of the plaintext dict and the signed dict
\* differ, in either direction, validate_data_dict never returns success.
C11_KeyMismatchNeverSucceeds ==
  (val.stage = "done" /\ ~SameKeys(val.plaintext_dict, val.signature_dict)) =>
    val.result # "True"

(***************************************************************************)
(* SpecSig: sign_data (lines 276-283) and validate_signature (lines        *)
(* 286-298) on drawn inputs.  A signer signs a text; the verifier is       *)
(* handed that signature, or a string that is no signature, and validates  *)
(* it for a text and an address of its choice.                             *)
(***************************************************************************)
\* the texts signed and checked; the empty string is one of them
SigTexts == {"", "1", "2"}

InitSig ==
  /\ pc = "sign"
  /\ cfg = [issuerKey |-> "valid", passportKey |-> "valid", contractAddress |-> ""]
  /\ recover_eth = "unset"
  /\ signer = OwnerAccount.privateKey
  /\ ledger = EmptyLedger(FALSE, ZeroAddress)
  /\ contract_address = ""
  /\ txs = <<>>
  /\ cur = 0
  /\ balance = [a \in AllAddresses |-> 0]
  /\ gasPrice = 1
  /\ reports = <<>>
  /\ calls = [op \in Operations |-> 0]
  /\ val = NoVal
  /\ sigcall = [NoSigCall EXCEPT !.stage = "start"]
  /\ verifier = NoVerifier
  /\ decoding = NoDecoding

\* sign_data(data, signing_account) is called and its signature kept
SigSign ==
  /\ sigcall.stage = "start"
  /\ \E data \in SigTexts, k \in PrivateKeys :
       sigcall' = [sigcall EXCEPT !.stage = "signed", !.data = data, !.key = k,
                                  !.signature = sign_data(data, Account(k)),
                                  !.genuine = TRUE]
  /\ UNCHANGED <<pc, cfg, recover_eth, signer, contract_address, txs, cur, ledger,
                 balance, gasPrice, reports, calls, val, verifier,
                 decoding>>

\* the signature that reaches the verifier is not the one sign_data returned but a
\* string of the wrong length or format
SigReplace ==
  /\ sigcall.stage = "signed"
  /\ sigcall.genuine
  /\ sigcall' = [sigcall EXCEPT !.signature = MalformedSignature, !.genuine = FALSE]
  /\ UNCHANGED <<pc, cfg, recover_eth, signer, contract_address, txs, cur, ledger,
                 balance, gasPrice, reports, calls, val, verifier,
                 decoding>>

\* validate_signature(data, signature, signer_address) is called; result is what
\* it returns, or the exception that leaves it
SigValidate ==
  /\ sigcall.stage = "signed"
  /\ \E data \in SigTexts, signer_address \in Addresses :
       sigcall' = [sigcall EXCEPT
                     !.stage = "validated", !.checked_data = data,
                     !.signer_address = signer_address,
                     !.result = validate_signature(data, sigcall.signature, signer_address)]
  /\ UNCHANGED <<pc, cfg, recover_eth, signer, contract_address, txs, cur, ledger,
                 balance, gasPrice, reports, calls, val, verifier,
                 decoding>>

NextSig ==
  \/ SigSign
  \/ SigReplace
  \/ SigValidate

SpecSig == InitSig /\ [][NextSig]_vars

\* C12 (as claimed): validate_signature never fails with an exception; it returns
\* a boolean for every signature, and false for a malformed one.
C12_ValidateNeverRaises ==
  sigcall.stage = "validated" =>
    /\ sigcall.result \in {"True", "False"}
    /\ ~sigcall.signature.wellformed => sigcall.result = "False"

\* C13: for every text s, the empty one included, and every account k,
\* validate_signature(s, sign_data(s, k), address(k)) returns True.
C13_SignThenValidate ==
  (sigcall.stage = "validated" /\ sigcall.genuine
     /\ sigcall.checked_data = sigcall.data
     /\ sigcall.signer_address = AddressOf(sigcall.key)) =>
    sigcall.result = "True"

\* the empty string was signed and validated for the signing account's address
C13_Witness ==
  /\ sigcall.stage = "validated"
  /\ sigcall.genuine
  /\ sigcall.data = ""
  /\ sigcall.checked_data = ""
  /\ sigcall.signer_address = AddressOf(sigcall.key)
  /\ sigcall.result = "True"

\* C14: validate_signature(s2, sign_data(s1, k1), address(k2)) returns False
\* whenever s1 differs from s2 or k1 differs from k2.
C14_OnlyExactPairAccepted ==
  (sigcall.stage = "validated" /\ sigcall.genuine
     /\ (sigcall.checked_data # sigcall.data
           \/ sigcall.signer_address # AddressOf(sigcall.key))) =>
    sigcall.result = "False"

\* a signature made over one text was validated for another text and the
\* signing account's own address, and was refused
C14_Witness ==
  /\ sigcall.stage = "validated"
  /\ sigcall.genuine
  /\ sigcall.checked_data # sigcall.data
  /\ sigcall.signer_address = AddressOf(sigcall.key)
  /\ sigcall.result = "False"

(***************************************************************************)
(* SpecFunds: a client seeds the issuer account (transfer_eth, as line     *)
(* 458 does) and sends account balances back (send_account_balance, as     *)
(* line 551 does), against a ledger that mines in the background while     *)
(* the fee rate moves.                                                     *)
(***************************************************************************)
\* what the issuer account holds at the start: nothing, less than the fee of a
\* transfer at any rate, the fee at the lowest rate, the seed
FundsBalances == {0, TransferGas - 1, TransferGas, SeedWei}

InitFunds ==
  /\ pc = "idle"
  /\ cfg = [issuerKey |-> "valid", passportKey |-> "valid", contractAddress |-> ""]
  /\ recover_eth = "unset"
  /\ signer \in {OwnerAccount.privateKey, IssuerAccount.privateKey}
  /\ ledger = EmptyLedger(FALSE, ZeroAddress)
  /\ contract_address = ""
  /\ txs = <<>>
  /\ cur = 0
  /\ \E b \in FundsBalances :
       balance = [a \in AllAddresses |->
                    IF a = OwnerAccount.address THEN OwnerWei
                    ELSE IF a = IssuerAccount.address THEN b
                    ELSE 0]
  /\ gasPrice \in GasPrices
  /\ reports = <<>>
  /\ calls = [op \in Operations |-> 0]
  /\ val = NoVal
  /\ sigcall = NoSigCall
  /\ verifier = NoVerifier
  /\ decoding = NoDecoding

\* transfer_eth(owner, issuer, 0.05), the seed of line 458
FundsSeed ==
  /\ MayCall
  /\ \E accepted \in BOOLEAN :
       transfer_eth(OwnerAccount.address, IssuerAccount.address, SeedAmount, 0, 0,
                    accepted, calls)
  /\ UNCHANGED <<pc, cfg, recover_eth, signer, contract_address, cur, ledger, balance,
                 gasPrice, val, sigcall, verifier, decoding>>

\* send_account_balance(from_address, to_address) between issuer and owner
FundsSendBalance ==
  /\ MayCall
  /\ \E from_address \in {IssuerAccount.address, OwnerAccount.address},
        to_address \in {IssuerAccount.address, OwnerAccount.address},
        accepted \in BOOLEAN :
       /\ from_address # to_address
       /\ send_account_balance(from_address, to_address, accepted, "idle", "idle")
  /\ UNCHANGED <<cfg, recover_eth, signer, contract_address, cur, ledger, balance,
                 gasPrice, val, sigcall, verifier, decoding>>

NextFunds ==
  \/ FundsSeed
  \/ FundsSendBalance
  \/ Mine
  \/ FeeRateMoves

SpecFunds == InitFunds /\ [][NextFunds]_vars

\* this step is a call of send_account_balance
SweepCalled == calls'["send_account_balance"] = calls["send_account_balance"] + 1

\* what the call of this step reported
LastReport == reports'[Len(reports')]

\* this step is a call of send_account_balance(issuer, owner)
IssuerSweepCalled ==
  /\ SweepCalled
  /\ LastReport.input.issuer = IssuerAccount.address
  /\ LastReport.input.address = OwnerAccount.address

\* in this step the ledger mines transfer i of the issuer to the owner
IssuerSweepLands(i) ==
  /\ txs[i].kind = "transfer_eth"
  /\ txs[i].from = IssuerAccount.address
  /\ txs[i].to = OwnerAccount.address
  /\ txs[i].status = "Pending"
  /\ txs'[i].status = "Success"

\* C15: send_account_balance(from, to) called when the balance of from is zero
\* submits no transfer, raises no error and leaves every balance and the
\* transactions of the sender as they are.
C15_ZeroBalanceIsNoOp ==
  [][(SweepCalled /\ balance[LastReport.input.issuer] = 0) =>
       /\ LastReport.op = "send_account_balance"
       /\ LastReport.outcome = "NoEth"
       /\ LastReport.tx = 0
       /\ txs' = txs
       /\ balance' = balance]_vars

\* send_account_balance was called for an account without a balance, after a
\* transfer to that account had been submitted
C15_Witness ==
  \E i \in 1..Len(reports) :
    /\ reports[i].op = "send_account_balance"
    /\ reports[i].outcome = "NoEth"
    /\ balance[reports[i].input.issuer] = 0
    /\ \E j \in 1..Len(txs) : txs[j].to = reports[i].input.issuer

\* C16 (as claimed): send_account_balance(issuer, owner) called with any non-zero
\* balance B submits one transfer to the owner of value B less the fee of 21000
\* units at the fee rate of the call, with that rate and a limit of 21000, so that
\* value plus fee is B; and the issuer's balance is zero once the transfer lands.
C16_SweepsAnyBalance ==
  [][/\ (IssuerSweepCalled /\ balance[IssuerAccount.address] # 0) =>
          /\ Len(txs') = Len(txs) + 1
          /\ LET t == txs'[Len(txs')]
                 B == balance[IssuerAccount.address]
             IN /\ t.kind = "transfer_eth"
                /\ t.from = IssuerAccount.address
                /\ t.to = OwnerAccount.address
                /\ t.value = B - TransferGas * gasPrice
                /\ t.gasPrice = gasPrice
                /\ t.gas = TransferGas
                /\ t.value + Fee(t) = B
     /\ \A i \in 1..Len(txs) : IssuerSweepLands(i) => balance'[IssuerAccount.address] = 0
    ]_vars

\* C16 (amended): called with a balance B of at least the fee, the call submits,
\* unless the ledger client refuses the transaction, one transfer to the owner of
\* value B less the fee, with the fee rate of the call and a limit of 21000, so
\* that value plus fee is B; called with 0 < B < fee it submits nothing and
\* fromWei's ValueError leaves it.  When the transfer lands it takes value and
\* fee from the issuer: the balance is zero if it still was B, and what was
\* credited to the issuer since the call stays.
C16_SweepsBalanceAboveFee ==
  [][/\ (IssuerSweepCalled /\ balance[IssuerAccount.address] # 0) =>
          LET B == balance[IssuerAccount.address]
              fee == TransferGas * gasPrice
          IN IF B < fee
               THEN /\ txs' = txs
                    /\ LastReport.outcome = "ValueError"
               ELSE \/ /\ txs' = txs
                       /\ LastReport.outcome = "SubmitError"
                    \/ /\ Len(txs') = Len(txs) + 1
                       /\ LastReport.outcome = "Sent"
                       /\ LastReport.tx = Len(txs')
                       /\ LET t == txs'[Len(txs')]
                          IN /\ t.kind = "transfer_eth"
                             /\ t.from = IssuerAccount.address
                             /\ t.to = OwnerAccount.address
                             /\ t.value = B - fee
                             /\ t.gasPrice = gasPrice
                             /\ t.gas = TransferGas
                             /\ t.value + Fee(t) = B
                             /\ \A j \in 1..Len(txs) : txs'[j] = txs[j]
     /\ \A i \in 1..Len(txs) :
          IssuerSweepLands(i) =>
            /\ balance'[IssuerAccount.address]
                 = balance[IssuerAccount.address] - (txs[i].value + Fee(txs[i]))
            /\ balance'[OwnerAccount.address] = balance[OwnerAccount.address] + txs[i].value
            /\ balance[IssuerAccount.address] = txs[i].value + Fee(txs[i])
                 => balance'[IssuerAccount.address] = 0
    ]_vars

\* the issuer held more than the fee, its balance was sent to the owner, and the
\* transfer has landed and left the issuer with nothing
C16_Witness ==
  \E i \in 1..Len(txs) :
    /\ txs[i].kind = "transfer_eth"
    /\ txs[i].from = IssuerAccount.address
    /\ txs[i].to = OwnerAccount.address
    /\ txs[i].value > 0
    /\ txs[i].status = "Success"
    /\ balance[IssuerAccount.address] = 0
    /\ balance[OwnerAccount.address] = OwnerWei + txs[i].value

(***************************************************************************)
(* The life of a submitted write (lines 183-231), as its caller sees it.   *)
(***************************************************************************)
\* the status of transaction t for the call that submitted it: Pending until the
\* wait ends; TimedOut when the wait raised; with a receipt, Confirmed or
\* Reverted by the receipt's status
TxStatus(t) ==
  CASE t.seen = "no" -> "Pending"
    [] t.seen = "timeout" -> "TimedOut"
    [] t.seen = "receipt" /\ t.status = "Success" -> "Confirmed"
    [] OTHER -> "Reverted"

\* the call that submitted transaction i printed its success message and the
\* cost computed from the receipt
ResultUsed(i) ==
  \E r \in ReportSet : r.tx = i /\ r.receipt # "none" /\ r.outcome = "Confirmed"

\* C17 (as claimed), the result: the receipt of a write is available to the
\* caller, for the success message and the cost, if and only if the write's
\* status is Confirmed.
C17_ResultIffConfirmed ==
  \A i \in 1..Len(txs) :
    txs[i].kind \in WaitedKinds => (ResultUsed(i) <=> TxStatus(txs[i]) = "Confirmed")

\* C17, the order: a submitted write stays submitted, its status leaves Pending
\* only for Confirmed, TimedOut or Reverted, and never changes after that.
C17_StatusMovesForward ==
  [][/\ Len(txs') >= Len(txs)
     /\ \A i \in 1..Len(txs) :
          \/ TxStatus(txs'[i]) = TxStatus(txs[i])
          \/ TxStatus(txs[i]) = "Pending"]_vars

\* C18: when create_health_passport has failed, the call has left nothing with
\* the ledger: no transaction that could still write the passport, and the
\* holder's passport does not carry the call's fields.
C18_FailedPassportLeavesNoTrace ==
  \A r \in ReportSet :
    (r.op = "create_health_passport" /\ r.outcome # "Confirmed") =>
      /\ r.tx = 0
      /\ TxsOfKind("create_health_passport") = {}
      /\ \A a \in HolderAddresses :
           ledger.passports[a].healthJson
             # json_dumps(SignDict(r.input.fields, IssuerAccount))

\* the issuer, authorized and signing, called create_health_passport for a holder
\* without a passport; the call failed and the holder still has none
C18_Witness ==
  \E r \in ReportSet :
    /\ r.op = "create_health_passport"
    /\ r.outcome = "NameError"
    /\ r.input.issuer \in ledger.authorized
    /\ signer = "kIssuer"
    /\ r.input.address = "0xOther"
    /\ ledger.passports["0xOther"] = NoPassport

(***************************************************************************)
(* SpecVerifier: the verifier part of the workflow (lines 513-542), from   *)
(* line 516 on, against a ledger that holds a passport with one credential *)
(* for the passport account.  Its positions: get_passport, get_credential, *)
(* validate_passport, passport_loop, validate_credential, credential_loop, *)
(* decide, verified; except is the handler of line 547.  verifier holds    *)
(* the locals, and in validations the calls of validate_data_dict made.    *)
(***************************************************************************)
\* what the issuer may have signed for plaintext dict d: d itself, or d with the
\* value of one field different
SignedFor(d) == {d} \cup {[d EXCEPT ![i][2] = "other"] : i \in 1..Len(d)}

\* the signed dicts the ledger may hold for plaintext dict d: the issuer's
\* signatures over one of SignedFor(d), or with a first entry that is no signature
StoredFor(d) ==
  {SignDict(f, IssuerAccount) : f \in SignedFor(d)}
    \cup {[SignDict(d, IssuerAccount) EXCEPT ![1][2] = MalformedSignature]}

\* the contract with the issuer authorized, a passport with signed fields g for the
\* passport account and one credential with signed fields c for it
VerifierLedger(g, c) ==
  LET issuer == IssuerAccount.address
      holder == PassportAccount.address
      h == CredentialHash(json_dumps(c), issuer, holder)
  IN [EmptyLedger(TRUE, OwnerAccount.address) EXCEPT
        !.authorized = {issuer},
        !.passports[holder] =
           [healthJson |-> json_dumps(g), issuerAddress |-> issuer,
            allowOnlySigned |-> FALSE, credentialHashes |-> <<h>>, isActive |-> TRUE],
        !.credentials =
           {[hash |-> h, credentialJson |-> json_dumps(c), issuerAddress |-> issuer,
             passportAddress |-> holder, isValid |-> TRUE]}]

InitVerifier ==
  /\ pc = "get_passport"
  /\ cfg = [issuerKey |-> "valid", passportKey |-> "valid", contractAddress |-> ContractAddress]
  /\ recover_eth = "False"
  /\ signer = IssuerAccount.privateKey
  /\ \E g \in StoredFor(health_data), c \in StoredFor(credential_data) :
       ledger = VerifierLedger(g, c)
  /\ contract_address = ContractAddress
  /\ txs = <<>>
  /\ cur = 0
  /\ balance = [a \in AllAddresses |->
                  IF a \in {OwnerAccount.address, IssuerAccount.address} THEN OwnerWei ELSE 0]
  /\ gasPrice \in GasPrices
  /\ reports = <<>>
  /\ calls = [op \in Operations |-> 0]
  /\ val = NoVal
  /\ sigcall = NoSigCall
  /\ verifier = NoVerifier
  /\ decoding = NoDecoding

\* line 516
VerifierGetPassport ==
  /\ pc = "get_passport"
  /\ LET p == get_health_passport(PassportAccount.address)
     IN IF p.ok
          THEN /\ verifier' = [verifier EXCEPT !.passport_dict = p.value]
               /\ pc' = "get_credential"
          ELSE /\ verifier' = verifier
               /\ pc' = "except"
  /\ UNCHANGED <<cfg, recover_eth, signer, contract_address, txs, cur, ledger, balance,
                 gasPrice, reports, calls, val, sigcall, decoding>>

\* line 522: the first of the passport's credential hashes; an IndexError without one
VerifierGetCredential ==
  /\ pc = "get_credential"
  /\ LET hashes == DictGet(verifier.passport_dict, "credentialHashes")
         c == get_credential(hashes[1])
     IN IF Len(hashes) > 0 /\ c.ok
          THEN /\ verifier' = [verifier EXCEPT !.credential_dict = c.value]
               /\ pc' = "validate_passport"
          ELSE /\ verifier' = verifier
               /\ pc' = "except"
  /\ UNCHANGED <<cfg, recover_eth, signer, contract_address, txs, cur, ledger, balance,
                 gasPrice, reports, calls, val, sigcall, decoding>>

\* the frame of validate_data_dict(plaintext_dict, signature_dict, signer_address) at its entry
ValFrame(plaintext_dict, signature_dict, signer_address) ==
  [stage |-> "loop", plaintext_dict |-> plaintext_dict, signature_dict |-> signature_dict,
   signer_address |-> signer_address, index |-> 1, verified |-> <<>>, printed |-> <<>>,
   result |-> "none"]

\* line 531: validate_data_dict is entered for the passport
VerifierValidatePassport ==
  /\ pc = "validate_passport"
  /\ val' = ValFrame(health_data, DictGet(verifier.passport_dict, "healthJson"),
                     DictGet(verifier.passport_dict, "issuerAddress"))
  /\ verifier' = [verifier EXCEPT !.validations = Append(@, "passport")]
  /\ pc' = "passport_loop"
  /\ UNCHANGED <<cfg, recover_eth, signer, contract_address, txs, cur, ledger, balance,
                 gasPrice, reports, calls, sigcall, decoding>>

\* VerifierPassportValidated, were a mismatch in the passport to end the
\* validation: the verifier decides without looking at the credential
VerifierPassportValidatedAbortsOnMismatch ==
  /\ pc = "passport_loop"
  /\ val.stage = "done"
  /\ IF val.result \in {"True", "False"}
       THEN /\ verifier' = [verifier EXCEPT !.passport_valid = val.result]
            /\ pc' = IF val.result = "True" THEN "validate_credential" ELSE "decide"
       ELSE /\ verifier' = verifier
            /\ pc' = "except"
  /\ val' = NoVal
  /\ UNCHANGED <<cfg, recover_eth, signer, contract_address, txs, cur, ledger, balance,
                 gasPrice, reports, calls, sigcall, decoding>>

\* line 531: validate_data_dict returns and passport_valid is assigned, or its
\* exception reaches the handler
VerifierPassportValidated ==
  /\ pc = "passport_loop"
  /\ val.stage = "done"
  /\ IF val.result \in {"True", "False"}
       THEN /\ verifier' = [verifier EXCEPT !.passport_valid = val.result]
            /\ pc' = "validate_credential"
       ELSE /\ verifier' = verifier
            /\ pc' = "except"
  /\ val' = NoVal
  /\ UNCHANGED <<cfg, recover_eth, signer, contract_address, txs, cur, ledger, balance,
                 gasPrice, reports, calls, sigcall, decoding>>

\* line 536: validate_data_dict is entered for the credential
VerifierValidateCredential ==
  /\ pc = "validate_credential"
  /\ val' = ValFrame(credential_data, DictGet(verifier.credential_dict, "credentialJson"),
                     DictGet(verifier.credential_dict, "issuerAddress"))
  /\ verifier' = [verifier EXCEPT !.validations = Append(@, "credential")]
  /\ pc' = "credential_loop"
  /\ UNCHANGED <<cfg, recover_eth, signer, contract_address, txs, cur, ledger, balance,
                 gasPrice, reports, calls, sigcall, decoding>>

\* line 536: validate_data_dict returns and credential_valid is assigned, or its
\* exception reaches the handler
VerifierCredentialValidated ==
  /\ pc = "credential_loop"
  /\ val.stage = "done"
  /\ IF val.result \in {"True", "False"}
       THEN /\ verifier' = [verifier EXCEPT !.credential_valid = val.result]
            /\ pc' = "decide"
       ELSE /\ verifier' = verifier
            /\ pc' = "except"
  /\ val' = NoVal
  /\ UNCHANGED <<cfg, recover_eth, signer, contract_address, txs, cur, ledger, balance,
                 gasPrice, reports, calls, sigcall, decoding>>

\* lines 539-542: entry is denied unless both are valid
VerifierDecide ==
  /\ pc = "decide"
  /\ verifier' = [verifier EXCEPT
                    !.access = IF verifier.passport_valid # "True"
                                    \/ verifier.credential_valid # "True"
                                 THEN "denied" ELSE "granted"]
  /\ pc' = "verified"
  /\ UNCHANGED <<cfg, recover_eth, signer, contract_address, txs, cur, ledger, balance,
                 gasPrice, reports, calls, val, sigcall, decoding>>

NextVerifier ==
  \/ VerifierGetPassport
  \/ VerifierGetCredential
  \/ VerifierValidatePassport
  \/ ValidateStep
  \/ VerifierPassportValidated
  \/ VerifierValidateCredential
  \/ VerifierCredentialValidated
  \/ VerifierDecide

SpecVerifier == InitVerifier /\ [][NextVerifier]_vars

\* C19: a signature mismatch found in the passport's fields does not end the
\* verifier part: the credential's validate_data_dict is still called; the
\* decision is taken after both validations have returned, and access is granted
\* if and only if both returned True.
C19_MismatchDoesNotAbortCredential ==
  /\ verifier.passport_valid = "False" =>
       \/ pc = "validate_credential"
       \/ verifier.validations = <<"passport", "credential">>
  /\ pc \in {"decide", "verified"} =>
       /\ verifier.validations = <<"passport", "credential">>
       /\ verifier.passport_valid \in {"True", "False"}
       /\ verifier.credential_valid \in {"True", "False"}
  /\ pc = "verified" =>
       /\ verifier.access \in {"granted", "denied"}
       /\ verifier.access = "granted"
            <=> (verifier.passport_valid = "True" /\ verifier.credential_valid = "True")
  /\ verifier.access # "undecided" => pc = "verified"

\* a field of the passport did not match, the credential was validated all the
\* same and found valid, and entry was denied
C19_Witness ==
  /\ pc = "verified"
  /\ verifier.validations = <<"passport", "credential">>
  /\ verifier.passport_valid = "False"
  /\ verifier.credential_valid = "True"
  /\ verifier.access = "denied"

(***************************************************************************)
(* SpecLive: the workflow under fairness.  The script is one sequential    *)
(* process that always takes its next step, and the ledger goes on mining  *)
(* what it has accepted.                                                   *)
(***************************************************************************)
\* a step of the script
WorkflowStep ==
  \/ SeedIssuer
  \/ InitPassportAccount
  \/ InitializeContract
  \/ DeployAwait
  \/ CodeCheck
  \/ WaitForCode
  \/ Authorize
  \/ AuthorizeAwait
  \/ SwitchAccount
  \/ CreatePassport
  \/ RecoverStep

SpecLive == Init /\ [][Next]_vars /\ WF_vars(WorkflowStep) /\ WF_vars(Mine)

\* C20 (as claimed): the wait of initialize_contract terminates: when the first
\* read showed no code and the ledger has the contract's code, the loop comes to
\* see it and initialize_contract returns.
C20_WaitForCodeTerminates ==
  (pc = "code_wait" /\ ledger.code) ~> (pc # "code_wait")

(***************************************************************************)
(* SpecDecode: the decoding of get_health_passport (lines 240-245) and of  *)
(* get_credential (lines 254-259) on the tuples a contract may return: the *)
(* tuple of the struct the class expects, one cut short, or one with more  *)
(* members, as a contract of another version at CONTRACT_ADDRESS returns.  *)
(***************************************************************************)
\* members a returned tuple has at most
MaxArity == 6

\* the first n members of tuple t, filled up with members the class knows nothing of
Resized(t, n) == [i \in 1..n |-> IF i <= Len(t) THEN t[i] ELSE "unknown member"]

\* the ledgers the tuples are read from
DecodeLedgers ==
  {VerifierLedger(g, c) : g \in StoredFor(health_data), c \in StoredFor(credential_data)}

\* the tuples returnPassport may give, with 0..MaxArity members
PassportTuples ==
  {Resized(returnPassport(l, PassportAccount.address), n) : l \in DecodeLedgers, n \in 0..MaxArity}

\* the tuples returnCredential may give, with 0..MaxArity members
CredentialTuples ==
  {Resized(returnCredential(l, l.passports[PassportAccount.address].credentialHashes[1]), n) :
     l \in DecodeLedgers, n \in 0..MaxArity}

InitDecode ==
  /\ pc = "decode"
  /\ cfg = [issuerKey |-> "valid", passportKey |-> "valid", contractAddress |-> ContractAddress]
  /\ recover_eth = "False"
  /\ signer = IssuerAccount.privateKey
  /\ ledger = EmptyLedger(TRUE, OwnerAccount.address)
  /\ contract_address = ContractAddress
  /\ txs = <<>>
  /\ cur = 0
  /\ balance = [a \in AllAddresses |-> 0]
  /\ gasPrice = 1
  /\ reports = <<>>
  /\ calls = [op \in Operations |-> 0]
  /\ val = NoVal
  /\ sigcall = NoSigCall
  /\ verifier = NoVerifier
  /\ \/ \E t \in PassportTuples :
          decoding = [NoDecoding EXCEPT !.stage = "start", !.kind = "passport", !.values = t]
     \/ \E t \in CredentialTuples :
          decoding = [NoDecoding EXCEPT !.stage = "start", !.kind = "credential", !.values = t]

\* get_health_passport, from line 240 on
DecodePassport ==
  /\ decoding.stage = "start"
  /\ decoding.kind = "passport"
  /\ decoding' = [decoding EXCEPT !.stage = "done",
                                   !.result = PassportDictFrom(decoding.values)]
  /\ UNCHANGED <<pc, cfg, recover_eth, signer, contract_address, txs, cur, ledger,
                 balance, gasPrice, reports, calls, val, sigcall, verifier>>

\* get_credential, from line 254 on
DecodeCredential ==
  /\ decoding.stage = "start"
  /\ decoding.kind = "credential"
  /\ decoding' = [decoding EXCEPT !.stage = "done",
                                   !.result = CredentialDictFrom(decoding.values)]
  /\ UNCHANGED <<pc, cfg, recover_eth, signer, contract_address, txs, cur, ledger,
                 balance, gasPrice, reports, calls, val, sigcall, verifier>>

NextDecode ==
  \/ DecodePassport
  \/ DecodeCredential

SpecDecode == InitDecode /\ [][NextDecode]_vars

\* the members the struct of the decoded kind has
StructOf(kind) == IF kind = "passport" THEN HEALTH_PASSPORT_STRUCT ELSE CREDENTIAL_STRUCT

\* C21 (as claimed): a tuple whose arity is not that of the struct (5 for a
\* passport, 4 for a credential) is rejected: no record comes back for it.
C21_ArityMismatchRejected ==
  (decoding.stage = "done" /\ Len(decoding.values) # Len(StructOf(decoding.kind))) =>
    ~decoding.result.ok

(***************************************************************************)
(* The recovery transfer (lines 547-551, 346-363).                         *)
(***************************************************************************)
\* C22 (as claimed): whenever the recovery send_account_balance(issuer, owner) is
\* about to run, the client signs as the issuer, on every exit path of the body,
\* also after a failure that came before the switch of lines 488-489.
C22_RecoverySignsAsIssuer ==
  (pc = "recover" /\ recover_eth = "True") => signer = IssuerAccount.privateKey

\* C23: send_account_balance never submits a transfer with a negative value;
\* called with a balance below the fee it submits nothing at all, the negative
\* difference being refused by fromWei before transfer_eth is called.
C23_NoNegativeTransfer ==
  /\ \A i \in 1..Len(txs) : txs[i].value >= 0
  /\ \A r \in ReportSet : r.outcome = "ValueError" => r.tx = 0
  /\ \A r \in ReportSet :
       (r.op = "transfer_eth" /\ r.tx # 0) => txs[r.tx].value >= 0

\* send_account_balance was called for an issuer holding less than the fee: the
\* call ended with fromWei's ValueError and nothing was submitted
C23_Witness ==
  /\ \E r \in ReportSet :
       /\ r.op = "send_account_balance"
       /\ r.outcome = "ValueError"
       /\ r.input.issuer = IssuerAccount.address
  /\ balance[IssuerAccount.address] > 0
  /\ balance[IssuerAccount.address] < TransferGas * gasPrice
  /\ txs = <<>>

====
